---- MODULE Spec2Model ----
(***************************************************************************)
(* A model of icka.py, the batched multi-account IRCCloud keep-alive tool. *)
(*                                                                         *)
(* The program is single threaded.  One behaviour of the model is one run  *)
(* of the process: main() resolves the accounts, then run_accounts_batched *)
(* drives every account through keep_alive (token request, login request,  *)
(* WebSocket auth), sleeping between batches and, in --forever mode,       *)
(* between iterations.  Every blocking call (HTTP request, WebSocket       *)
(* connect/send/recv/close, sleep) is one step; the remote service and the *)
(* transport choose each call's outcome.                                   *)
(*                                                                         *)
(* Text (lines of the accounts file, the sleep interval) is a sequence of  *)
(* one-character strings.  A JSON object is a function from its keys to    *)
(* its values; an HTTP body or WebSocket frame is a record saying whether  *)
(* it decodes at all, whether it decodes to an object, and that object.    *)
(***************************************************************************)
EXTENDS Integers, Sequences, FiniteSets, TLC

\* Bounds of the model.
MaxLines == 3        \* lines of the accounts file, so at most 3 accounts
MaxIter == 2         \* scheduler invocations followed in --forever mode
MaxForever == 2      \* lines of the accounts file when the loop is followed without end
MaxTokens == 2       \* items (tokens and other characters) of a duration string
MaxFileLines == 3    \* lines of the accounts file when load_accounts is called on its own
MaxEnvLines == 3     \* lines of the .env file

----------------------------------------------------------------------------
(* Text helpers: str.strip, str.startswith, "in", str.split(sep, 1).       *)

IsSpace(c) == c \in {" ", "\t", "\n"}

RECURSIVE lstrip(_)
lstrip(s) == IF s # <<>> /\ IsSpace(Head(s)) THEN lstrip(Tail(s)) ELSE s

RECURSIVE rstrip(_)
rstrip(s) ==
    IF s # <<>> /\ IsSpace(s[Len(s)]) THEN rstrip(SubSeq(s, 1, Len(s) - 1)) ELSE s

strip(s) == rstrip(lstrip(s))

Contains(s, c) == \E p \in 1..Len(s) : s[p] = c

FirstIndex(s, c) == CHOOSE p \in 1..Len(s) : s[p] = c /\ \A q \in 1..(p - 1) : s[q] # c

\* line.split(sep, 1) for a line that contains sep: the parts around the first sep
split1(s, c) ==
    LET p == FirstIndex(s, c) IN <<SubSeq(s, 1, p - 1), SubSeq(s, p + 1, Len(s))>>

----------------------------------------------------------------------------
(* load_dotenv.  The environment is a function from the names of the       *)
(* variables that are set to their values, names and values being text.    *)
(* The result is a record: exc is the exception the call ends with ("" when*)
(* it returns), env the environment afterwards.                            *)

\* os.environ[key] = value
SetEnv(env, key, value) ==
    [x \in DOMAIN env \cup {key} |-> IF x = key THEN value ELSE env[x]]

\* faulty variant: os.environ[key] = value without the test "key not in"
RECURSIVE dotenv_lines_Overwrite(_, _)
dotenv_lines_Overwrite(lines, env) ==
    IF lines = <<>> THEN [exc |-> "", env |-> env]
    ELSE LET line == strip(Head(lines)) IN
         IF line = <<>> \/ Head(line) = "#" THEN dotenv_lines_Overwrite(Tail(lines), env)
         ELSE IF ~Contains(line, "=") THEN dotenv_lines_Overwrite(Tail(lines), env)
         ELSE LET parts == split1(line, "=")
                  key == strip(parts[1])
                  value == strip(parts[2])
              IN IF key = <<>> THEN [exc |-> "ValueError", env |-> env]
                 ELSE dotenv_lines_Overwrite(Tail(lines), SetEnv(env, key, value))

\* the body of the loop over the file's lines, applied to the lines left.
\* os.environ refuses an empty name with ValueError
RECURSIVE dotenv_lines(_, _)
dotenv_lines(lines, env) ==
    IF lines = <<>> THEN [exc |-> "", env |-> env]
    ELSE LET line == strip(Head(lines)) IN
         IF line = <<>> \/ Head(line) = "#" THEN dotenv_lines(Tail(lines), env)
         ELSE IF ~Contains(line, "=") THEN dotenv_lines(Tail(lines), env)
         ELSE LET parts == split1(line, "=")
                  key == strip(parts[1])
                  value == strip(parts[2])
              IN IF key \in DOMAIN env THEN dotenv_lines(Tail(lines), env)
                 ELSE IF key = <<>> THEN [exc |-> "ValueError", env |-> env]
                 ELSE dotenv_lines(Tail(lines), SetEnv(env, key, value))

\* isfile, lines: whether path names an existing file, and its lines
load_dotenv(isfile, lines, env) ==
    IF ~isfile THEN [exc |-> "", env |-> env] ELSE dotenv_lines(lines, env)

----------------------------------------------------------------------------
(* load_accounts.  The result is a record: exit is the SystemExit message  *)
(* ("" when the function returns), accounts the list it returns.           *)

\* faulty variant: a line without separator is skipped
RECURSIVE load_lines_SkipInvalid(_, _)
load_lines_SkipInvalid(lines, acc) ==
    IF lines = <<>> THEN [exit |-> "", accounts |-> acc]
    ELSE LET line == strip(Head(lines)) IN
         IF line = <<>> \/ Head(line) = "#" THEN load_lines_SkipInvalid(Tail(lines), acc)
         ELSE IF Contains(line, ":")
              THEN LET parts == split1(line, ":") IN
                   load_lines_SkipInvalid(Tail(lines),
                                          Append(acc, <<strip(parts[1]), strip(parts[2])>>))
         ELSE IF Contains(line, ",")
              THEN LET parts == split1(line, ",") IN
                   load_lines_SkipInvalid(Tail(lines),
                                          Append(acc, <<strip(parts[1]), strip(parts[2])>>))
         ELSE load_lines_SkipInvalid(Tail(lines), acc)

\* faulty variant: ',' is tried before ':'
RECURSIVE load_lines_CommaFirst(_, _)
load_lines_CommaFirst(lines, acc) ==
    IF lines = <<>> THEN [exit |-> "", accounts |-> acc]
    ELSE LET line == strip(Head(lines)) IN
         IF line = <<>> \/ Head(line) = "#" THEN load_lines_CommaFirst(Tail(lines), acc)
         ELSE IF Contains(line, ",")
              THEN LET parts == split1(line, ",") IN
                   load_lines_CommaFirst(Tail(lines),
                                         Append(acc, <<strip(parts[1]), strip(parts[2])>>))
         ELSE IF Contains(line, ":")
              THEN LET parts == split1(line, ":") IN
                   load_lines_CommaFirst(Tail(lines),
                                         Append(acc, <<strip(parts[1]), strip(parts[2])>>))
         ELSE [exit |-> "invalid line in accounts file", accounts |-> <<>>]

\* the body of the loop over the file's lines, applied to the lines left
RECURSIVE load_lines(_, _)
load_lines(lines, acc) ==
    IF lines = <<>> THEN [exit |-> "", accounts |-> acc]
    ELSE LET line == strip(Head(lines)) IN
         IF line = <<>> \/ Head(line) = "#" THEN load_lines(Tail(lines), acc)
         ELSE IF Contains(line, ":")
              THEN LET parts == split1(line, ":") IN
                   load_lines(Tail(lines), Append(acc, <<strip(parts[1]), strip(parts[2])>>))
         ELSE IF Contains(line, ",")
              THEN LET parts == split1(line, ",") IN
                   load_lines(Tail(lines), Append(acc, <<strip(parts[1]), strip(parts[2])>>))
         ELSE [exit |-> "invalid line in accounts file", accounts |-> <<>>]

\* accounts_file, email, password: text, <<>> standing for None or ""
\* isfile, lines: whether accounts_file names an existing file, and its lines
load_accounts(accounts_file, email, password, isfile, lines) ==
    LET loaded ==
          IF accounts_file # <<>>
          THEN IF ~isfile
               THEN [exit |-> "accounts file not found", accounts |-> <<>>]
               ELSE load_lines(lines, <<>>)
          ELSE IF email # <<>> /\ password # <<>>
               THEN [exit |-> "", accounts |-> <<<<email, password>>>>]
               ELSE [exit |-> "", accounts |-> <<>>]
    IN IF loaded.exit # "" THEN loaded
       ELSE IF loaded.accounts = <<>>
            THEN [exit |-> "No accounts configured", accounts |-> <<>>]
            ELSE loaded

----------------------------------------------------------------------------
(* parse_duration_to_seconds.  re.findall scans left to right for          *)
(* (\d+(?:\.\d+)?)([smhd]); the texts of the model hold no '.', so a match *)
(* is a maximal-to-the-right run of digits followed by a unit.             *)

Digits == {"0", "1", "2", "3", "4", "5", "6", "7", "8", "9"}
Units == {"s", "m", "h", "d"}

DigitVal(c) ==
    CASE c = "0" -> 0 [] c = "1" -> 1 [] c = "2" -> 2 [] c = "3" -> 3 [] c = "4" -> 4
      [] c = "5" -> 5 [] c = "6" -> 6 [] c = "7" -> 7 [] c = "8" -> 8 [] c = "9" -> 9

UnitSeconds(u) ==
    CASE u = "s" -> 1 [] u = "m" -> 60 [] u = "h" -> 3600 [] u = "d" -> 86400

\* the end of the run of digits that starts at p (the first index past it)
RECURSIVE DigitsEnd(_, _)
DigitsEnd(s, p) == IF p <= Len(s) /\ s[p] \in Digits THEN DigitsEnd(s, p + 1) ELSE p

\* float(amount) for the digits s[p..q-1]
RECURSIVE Amount(_, _, _, _)
Amount(s, p, q, acc) == IF p >= q THEN acc ELSE Amount(s, p + 1, q, 10 * acc + DigitVal(s[p]))

\* the loop over pattern.findall(s), from index p on, total so far
RECURSIVE scan_duration(_, _, _)
scan_duration(s, p, total) ==
    IF p > Len(s) THEN total
    ELSE LET q == DigitsEnd(s, p) IN
         IF q > p /\ q <= Len(s) /\ s[q] \in Units
         THEN scan_duration(s, q + 1, total + Amount(s, p, q, 0) * UnitSeconds(s[q]))
         ELSE scan_duration(s, p + 1, total)

\* ok = FALSE stands for the ValueError
parse_duration_to_seconds(s) ==
    LET total == scan_duration(s, 1, 0) IN
    IF total = 0 THEN [ok |-> FALSE, seconds |-> 0] ELSE [ok |-> TRUE, seconds |-> total]

----------------------------------------------------------------------------
(* JSON.  A decoded object is a function from keys to values.  A body (of  *)
(* an HTTP response or a WebSocket frame) is what json.loads makes of it:  *)
(* valid = FALSE when it raises JSONDecodeError, isdict = FALSE when the   *)
(* text decodes to something that is not an object (a list, null).         *)

EmptyDict == [key \in {} |-> TRUE]
NotJson == [valid |-> FALSE, isdict |-> FALSE, obj |-> EmptyDict]
JsonList == [valid |-> TRUE, isdict |-> FALSE, obj |-> EmptyDict]
Obj(d) == [valid |-> TRUE, isdict |-> TRUE, obj |-> d]

\* dict.get(key, default); a get without default returns None, which the
\* code only tests for truth: default is then the falsy value of the type
Get(d, key, default) == IF key \in DOMAIN d THEN d[key] ELSE default

\* What the remote service may answer.  It issues a token per token request
\* and a session cookie per login, and two handshakes in a row never get the
\* same one: attempt is the number of the handshake over the whole run.
SessionFields == {"websocket_host", "websocket_path", "session"}

TokenOf(attempt) == IF attempt % 2 = 1 THEN "tokA" ELSE "tokB"
CookieOf(attempt) == IF attempt % 2 = 1 THEN "cookA" ELSE "cookB"

SessionDict(fields, cookie) ==
    [key \in fields \cup {"success"} |->
        CASE key = "success" -> TRUE
          [] key = "websocket_host" -> "ws.host"
          [] key = "websocket_path" -> "/path"
          [] key = "session" -> cookie]

TokenBodies(attempt) ==
    {NotJson, JsonList, Obj(EmptyDict), Obj([success |-> FALSE]),
     Obj([success |-> FALSE, token |-> TokenOf(attempt)]),
     Obj([success |-> TRUE]), Obj([success |-> TRUE, token |-> ""]),
     Obj([success |-> TRUE, token |-> TokenOf(attempt)])}

LoginBodies(attempt) ==
    {NotJson, JsonList, Obj(EmptyDict), Obj([success |-> FALSE])}
    \cup {Obj(SessionDict(fields, CookieOf(attempt))) : fields \in SUBSET SessionFields}

Frames ==
    {NotJson, JsonList, Obj(EmptyDict), Obj([success |-> FALSE]), Obj([success |-> TRUE])}

\* A reply of the transport: kind "error" is an exception of requests or of
\* websocket (timeout, refused connection, non-2xx status), kind "body" a
\* payload, kind "none" that nothing was received yet.
NoReply == [kind |-> "none", body |-> NotJson]
ErrorReply == [kind |-> "error", body |-> NotJson]
BodyReply(b) == [kind |-> "body", body |-> b]
Replies(bodies) == {ErrorReply} \cup {BodyReply(b) : b \in bodies}

----------------------------------------------------------------------------
(* The pure parts of the handshake.  An exception is a string, "" for none.*)

\* get_auth_token / get_session up to json.loads: the exception, if any
http_json(reply) ==
    IF reply.kind = "error" THEN "TransportError"
    ELSE IF ~reply.body.valid THEN "JSONDecodeError"
    ELSE ""

\* faulty variant: the success field of token_resp is not tested
token_check_NoSuccessTest(body) ==
    IF ~body.isdict THEN [exc |-> "AttributeError", token |-> ""]
    ELSE IF Get(body.obj, "token", "") = ""
         THEN [exc |-> "RuntimeError: auth token missing in response", token |-> ""]
    ELSE [exc |-> "", token |-> body.obj["token"]]

\* faulty variant: the token of the first handshake is kept and used again
token_check_FirstToken(body) ==
    IF ~body.isdict THEN [exc |-> "AttributeError", token |-> ""]
    ELSE IF ~Get(body.obj, "success", FALSE)
         THEN [exc |-> "RuntimeError: get auth token failed", token |-> ""]
    ELSE IF Get(body.obj, "token", "") = ""
         THEN [exc |-> "RuntimeError: auth token missing in response", token |-> ""]
    ELSE [exc |-> "", token |-> TokenOf(1)]

\* keep_alive's checks of token_resp
token_check(body) ==
    IF ~body.isdict THEN [exc |-> "AttributeError", token |-> ""]
    ELSE IF ~Get(body.obj, "success", FALSE)
         THEN [exc |-> "RuntimeError: get auth token failed", token |-> ""]
    ELSE IF Get(body.obj, "token", "") = ""
         THEN [exc |-> "RuntimeError: auth token missing in response", token |-> ""]
    ELSE [exc |-> "", token |-> body.obj["token"]]

NoSession == [ws_host |-> "", ws_path |-> "", session_cookie |-> ""]

\* faulty variant: session_resp.get(field, "") instead of the subscripts
session_check_Defaults(body) ==
    IF ~body.isdict THEN [exc |-> "AttributeError", session |-> NoSession]
    ELSE IF ~Get(body.obj, "success", FALSE)
         THEN [exc |-> "RuntimeError: get session failed, check email and password",
               session |-> NoSession]
    ELSE [exc |-> "",
          session |-> [ws_host |-> Get(body.obj, "websocket_host", ""),
                       ws_path |-> Get(body.obj, "websocket_path", "") \o "?exclude_archives=1",
                       session_cookie |-> Get(body.obj, "session", "")]]

\* keep_alive's checks of session_resp and the three subscripts
session_check(body) ==
    IF ~body.isdict THEN [exc |-> "AttributeError", session |-> NoSession]
    ELSE IF ~Get(body.obj, "success", FALSE)
         THEN [exc |-> "RuntimeError: get session failed, check email and password",
               session |-> NoSession]
    ELSE IF ~(SessionFields \subseteq DOMAIN body.obj)
         THEN [exc |-> "KeyError", session |-> NoSession]
    ELSE [exc |-> "",
          session |-> [ws_host |-> body.obj["websocket_host"],
                       ws_path |-> body.obj["websocket_path"] \o "?exclude_archives=1",
                       session_cookie |-> body.obj["session"]]]

\* faulty variant: r.get("success", True)
frame_check_DefaultTrue(reply) ==
    IF reply.kind = "error" THEN "TransportError"
    ELSE IF ~reply.body.valid THEN "JSONDecodeError"
    ELSE IF ~reply.body.isdict THEN "AttributeError"
    ELSE IF Get(reply.body.obj, "success", TRUE) THEN "return True"
    ELSE "return False"

\* auth_websocket from raw = ws.recv() to the value of success:
\* what the try block does next, "return True", "return False" or an exception
frame_check(reply) ==
    IF reply.kind = "error" THEN "TransportError"
    ELSE IF ~reply.body.valid THEN "JSONDecodeError"
    ELSE IF ~reply.body.isdict THEN "AttributeError"
    ELSE IF Get(reply.body.obj, "success", FALSE) THEN "return True"
    ELSE "return False"

\* "except Exception" of run_accounts_batched: KeyboardInterrupt and
\* SystemExit derive from BaseException only
\* faulty variant: "except RuntimeError"
ExceptException_RuntimeErrorOnly(exc) ==
    exc \in {"RuntimeError: get auth token failed",
             "RuntimeError: auth token missing in response",
             "RuntimeError: get session failed, check email and password",
             "RuntimeError: auth websocket request failed"}

\* faulty variant: "except BaseException"
ExceptException_BaseException(exc) == TRUE

ExceptException(exc) == exc \notin {"KeyboardInterrupt", "SystemExit"}

----------------------------------------------------------------------------
(* run_accounts_batched's arithmetic.                                      *)

\* faulty variant: a non-positive batch_size becomes 1
EffectiveBatchSize_One(bs, total) == IF bs <= 0 THEN 1 ELSE bs

EffectiveBatchSize(bs, total) == IF bs <= 0 THEN total ELSE bs

\* faulty variant: the slice accounts[i : i + batch_size + 1]
BatchLen_Inclusive(i0, bs, total) == IF i0 + bs + 1 <= total THEN bs + 1 ELSE total - i0

\* len(accounts[i : i + batch_size])
BatchLen(i0, bs, total) == IF i0 + bs <= total THEN bs ELSE total - i0

\* faulty variant: batch_sleep_seconds >= 0
ShouldSleep_ZeroToo(end_idx, total, batch_sleep_seconds) ==
    end_idx < total /\ batch_sleep_seconds >= 0

\* the condition of the sleep between batches
ShouldSleep(end_idx, total, batch_sleep_seconds) ==
    end_idx < total /\ batch_sleep_seconds > 0

----------------------------------------------------------------------------
(* State.                                                                  *)

VARIABLES
    args,           \* the resolved command line: accounts_file, email, password,
                    \* forever, sleep_interval, batch_size, batch_sleep_seconds
    fs,             \* the file system at accounts_file: isfile, lines
    pc,             \* where the process is: "main", "run", "token", "login",
                    \* "ws_connect", "ws_send", "ws_recv", "ws_close",
                    \* "ws_finally", "batch_sleep", "iter_sleep", "exit"
    accounts,       \* main: the loaded list of <<email, password>>
    sleep_seconds,  \* main: the parsed sleep interval (0 before it is parsed)
    batch_size,     \* run_accounts_batched: batch_size after line 300
    i,              \* run_accounts_batched: start of the current batch, 0-based
    k,              \* run_accounts_batched: offset of the account in its batch
    ka,             \* keep_alive: token, ws_host, ws_path, session_cookie
    aw,             \* auth_websocket: ws (its connection, 0 for none) and
                    \* pending (what the try block ended with)
    conns,          \* the transport: open, the connections that are open
    hs,             \* what the current (or last) handshake did on the wire
    obs,            \* what the run did.  Of the current scheduler invocation:
                    \* order (positions keep_alive was called for), batches
                    \* (the same, batch by batch), sleeps (the batch sleeps).
                    \* Of the run: runs and returns (scheduler invocations
                    \* begun and returned), iter_sleeps, interrupted
    exit_status,    \* the process exit status, -1 while it runs
    escaped,        \* the exception that ended the process, "" for none
    net_used,       \* whether any network call was issued
    call            \* a function called on its own: fn, its arguments arg, its
                    \* result and whether it has returned (done)

vars == <<args, fs, pc, accounts, sleep_seconds, batch_size, i, k, ka, aw, conns,
          hs, obs, exit_status, escaped, net_used, call>>

\* Inputs of the model.
NoText == <<>>
AccountLines == {<<"a", ":", "p">>, <<"b", ",", "q">>, <<"x">>}
Intervals == {<<"1", "h">>, <<"x">>}
BatchSizes == (-1)..MaxLines
BatchSleeps == {-1, 0, 2}

RECURSIVE SeqsUpTo(_, _)
SeqsUpTo(S, n) ==
    IF n = 0 THEN {<<>>}
    ELSE LET shorter == SeqsUpTo(S, n - 1) IN
         shorter \cup {Append(q, x) : q \in shorter, x \in S}

\* accounts file and single pair: no file (with every choice of the pair), a
\* path that is no file, or a file of up to MaxLines lines
Sources ==
    {[accounts_file |-> NoText, email |-> e, password |-> p, isfile |-> FALSE, lines |-> <<>>] :
        e \in {NoText, <<"e">>}, p \in {NoText, <<"w">>}}
    \cup {[accounts_file |-> <<"f">>, email |-> <<"e">>, password |-> <<"w">>,
           isfile |-> FALSE, lines |-> <<>>]}
    \cup {[accounts_file |-> <<"f">>, email |-> NoText, password |-> NoText,
           isfile |-> TRUE, lines |-> ls] : ls \in SeqsUpTo(AccountLines, MaxLines)}

NoHandshake ==
    [run |-> 0, pos |-> 0, email |-> NoText, state |-> "START", error |-> "",
     token_reply |-> NoReply, login_reply |-> NoReply, frame |-> NoReply,
     token_reqs |-> 0, login_reqs |-> 0, ws_conns |-> 0,
     sends |-> 0, recvs |-> 0, closes |-> 0,
     form |-> [email |-> NoText, password |-> NoText, token |-> "", header |-> ""],
     url |-> "", cookie_sent |-> "", conn |-> 0]

NoLocals == [token |-> "", ws_host |-> "", ws_path |-> "", session_cookie |-> ""]

\* no function is called on its own: the process runs from main
NoCall == [fn |-> "main", arg |-> <<>>, result |-> <<>>, done |-> FALSE]

Init ==
    /\ \E src \in Sources, fv \in BOOLEAN, si \in Intervals,
          bs \in BatchSizes, bss \in BatchSleeps :
          /\ args = [accounts_file |-> src.accounts_file, email |-> src.email,
                     password |-> src.password, forever |-> fv, sleep_interval |-> si,
                     batch_size |-> bs, batch_sleep_seconds |-> bss]
          /\ fs = [isfile |-> src.isfile, lines |-> src.lines]
    /\ pc = "main"
    /\ accounts = <<>>
    /\ sleep_seconds = 0
    /\ batch_size = 0
    /\ i = 0
    /\ k = 0
    /\ ka = NoLocals
    /\ aw = [ws |-> 0, pending |-> ""]
    /\ conns = [open |-> {}]
    /\ hs = NoHandshake
    /\ obs = [order |-> <<>>, batches |-> <<>>, sleeps |-> <<>>, runs |-> 0,
              returns |-> 0, iter_sleeps |-> <<>>, interrupted |-> FALSE]
    /\ exit_status = -1
    /\ escaped = ""
    /\ net_used = FALSE
    /\ call = NoCall

----------------------------------------------------------------------------
(* main.                                                                   *)

\* raise SystemExit(message): the interpreter prints it and exits with 1
SystemExit ==
    /\ pc' = "exit"
    /\ exit_status' = 1
    /\ escaped' = "SystemExit"

\* main from load_accounts to the first call of run_accounts_batched
Main ==
    /\ pc = "main"
    /\ LET la == load_accounts(args.accounts_file, args.email, args.password,
                               fs.isfile, fs.lines)
           d == parse_duration_to_seconds(args.sleep_interval)
       IN IF la.exit # ""
          THEN SystemExit /\ UNCHANGED <<accounts, sleep_seconds>>
          ELSE IF ~args.forever
               THEN /\ accounts' = la.accounts
                    /\ pc' = "run"
                    /\ UNCHANGED <<sleep_seconds, exit_status, escaped>>
          ELSE IF ~d.ok
               THEN SystemExit /\ accounts' = la.accounts /\ UNCHANGED sleep_seconds
          ELSE /\ accounts' = la.accounts
               /\ sleep_seconds' = d.seconds
               /\ pc' = "run"
               /\ UNCHANGED <<exit_status, escaped>>
    /\ UNCHANGED <<call, args, fs, batch_size, i, k, ka, aw, conns, hs, obs, net_used>>

----------------------------------------------------------------------------
(* run_accounts_batched.                                                   *)

\* 1-based position in accounts of the account keep_alive is called for
Pos == i + k + 1

\* The number of the handshake attempt, counted over the whole run: every
\* ws_client call creates a connection of its own, named by this number
AttemptId == (obs.runs - 1) * Len(accounts) + Pos

\* An exception no handler of main catches reaches the "__main__" block:
\* KeyboardInterrupt is turned into sys.exit(0), any other one is printed and
\* the interpreter exits with 1
Uncaught(exc) ==
    /\ pc' = "exit"
    /\ exit_status' = IF exc = "KeyboardInterrupt" THEN 0 ELSE 1
    /\ escaped' = exc

\* faulty variant: the forever loop is entered whatever args.forever is
Returned_AlwaysLoop(obs1) ==
    /\ obs' = [obs1 EXCEPT !.returns = @ + 1]
    /\ pc' = "iter_sleep"
    /\ UNCHANGED <<exit_status, escaped>>

\* run_accounts_batched returns to main: one-shot mode returns from main (exit
\* status 0), forever mode goes on to time.sleep(sleep_seconds)
Returned(obs1) ==
    /\ obs' = [obs1 EXCEPT !.returns = @ + 1]
    /\ IF ~args.forever
       THEN pc' = "exit" /\ exit_status' = 0 /\ UNCHANGED escaped
       ELSE pc' = "iter_sleep" /\ UNCHANGED <<exit_status, escaped>>

\* keep_alive ended, with exception exc or by returning (exc = ""): the except
\* clause, then the rest of the two loops of run_accounts_batched
Finish(exc, hs1, obs1, open1) ==
    /\ hs' = [hs1 EXCEPT !.state = IF exc = "" THEN "WS_AUTHENTICATED" ELSE "FAILED",
                         !.error = exc]
    /\ ka' = NoLocals
    /\ aw' = [ws |-> 0, pending |-> ""]
    /\ conns' = [open |-> open1]
    /\ IF exc # "" /\ ~ExceptException(exc)
       THEN Uncaught(exc) /\ obs' = obs1 /\ UNCHANGED <<i, k>>
       ELSE LET total == Len(accounts)
                end_idx == i + BatchLen(i, batch_size, total)
            IN IF k + 1 < BatchLen(i, batch_size, total)
               THEN /\ k' = k + 1
                    /\ pc' = "token"
                    /\ obs' = obs1
                    /\ UNCHANGED <<i, exit_status, escaped>>
               ELSE IF ShouldSleep(end_idx, total, args.batch_sleep_seconds)
               THEN /\ pc' = "batch_sleep"
                    /\ obs' = obs1
                    /\ UNCHANGED <<i, k, exit_status, escaped>>
               ELSE IF i + batch_size < total
               THEN /\ i' = i + batch_size
                    /\ k' = 0
                    /\ pc' = "token"
                    /\ obs' = obs1
                    /\ UNCHANGED <<exit_status, escaped>>
               ELSE Returned(obs1) /\ UNCHANGED <<i, k>>

\* faulty variant: an invocation that follows a failed handshake leaves out
\* the first account
RunAccountsBatched_SkipAfterFailure ==
    /\ pc = "run"
    /\ batch_size' = EffectiveBatchSize(args.batch_size, Len(accounts))
    /\ i' = IF hs.state = "FAILED" /\ Len(accounts) > 1 THEN 1 ELSE 0
    /\ k' = 0
    /\ obs' = [obs EXCEPT !.order = <<>>, !.batches = <<>>, !.sleeps = <<>>,
                          !.runs = @ + 1]
    /\ pc' = "token"
    /\ UNCHANGED <<exit_status, escaped>>
    /\ UNCHANGED <<call, args, fs, accounts, sleep_seconds, ka, aw, conns, hs, net_used>>

\* run_accounts_batched up to the first keep_alive of the first batch
RunAccountsBatched ==
    /\ pc = "run"
    /\ IF Len(accounts) = 0
       THEN Returned([obs EXCEPT !.order = <<>>, !.batches = <<>>, !.sleeps = <<>>,
                                 !.runs = @ + 1])
            /\ UNCHANGED <<batch_size, i, k>>
       ELSE /\ batch_size' = EffectiveBatchSize(args.batch_size, Len(accounts))
            /\ i' = 0
            /\ k' = 0
            /\ obs' = [obs EXCEPT !.order = <<>>, !.batches = <<>>, !.sleeps = <<>>,
                                  !.runs = @ + 1]
            /\ pc' = "token"
            /\ UNCHANGED <<exit_status, escaped>>
    /\ UNCHANGED <<call, args, fs, accounts, sleep_seconds, ka, aw, conns, hs, net_used>>

\* time.sleep(batch_sleep_seconds), then the next batch
BatchSleep ==
    /\ pc = "batch_sleep"
    /\ obs' = [obs EXCEPT !.sleeps =
                  Append(@, [after |-> Len(obs.order), seconds |-> args.batch_sleep_seconds])]
    /\ i' = i + batch_size
    /\ k' = 0
    /\ pc' = "token"
    /\ UNCHANGED <<call, args, fs, accounts, sleep_seconds, batch_size, ka, aw, conns, hs,
                   exit_status, escaped, net_used>>

\* time.sleep(sleep_seconds) of the forever loop, then the next iteration
IterSleep ==
    /\ pc = "iter_sleep"
    /\ obs.runs < MaxIter
    /\ obs' = [obs EXCEPT !.iter_sleeps = Append(@, sleep_seconds)]
    /\ pc' = "run"
    /\ UNCHANGED <<call, args, fs, accounts, sleep_seconds, batch_size, i, k, ka, aw, conns,
                   hs, exit_status, escaped, net_used>>

----------------------------------------------------------------------------
(* keep_alive and auth_websocket.                                          *)

\* ws.close(): the connection is closed afterwards; closing a closed
\* connection does nothing
ws_close(open, ws) == open \ {ws}

\* the batches so far, with position pos added: to a new batch when the
\* account is the first of its batch, else to the last batch
Attempted(batches, pos, first) ==
    IF first THEN Append(batches, <<pos>>)
    ELSE [batches EXCEPT ![Len(batches)] = Append(batches[Len(batches)], pos)]

\* keep_alive is called; get_auth_token and the checks of its result
TokenRequest ==
    /\ pc = "token"
    /\ \E reply \in Replies(TokenBodies(AttemptId)) :
          LET acct == accounts[Pos]
              hs1 == [NoHandshake EXCEPT !.run = obs.runs, !.pos = Pos, !.email = acct[1],
                                         !.token_reqs = 1, !.token_reply = reply]
              obs1 == [obs EXCEPT !.order = Append(@, Pos),
                                  !.batches = Attempted(@, Pos, k = 0)]
              exc == http_json(reply)
              chk == token_check(reply.body)
          IN IF exc # "" THEN Finish(exc, hs1, obs1, conns.open)
             ELSE IF chk.exc # "" THEN Finish(chk.exc, hs1, obs1, conns.open)
             ELSE /\ ka' = [NoLocals EXCEPT !.token = chk.token]
                  /\ hs' = [hs1 EXCEPT !.state = "TOKEN_REQUESTED"]
                  /\ obs' = obs1
                  /\ pc' = "login"
                  /\ UNCHANGED <<i, k, aw, conns, exit_status, escaped>>
    /\ net_used' = TRUE
    /\ UNCHANGED <<call, args, fs, accounts, sleep_seconds, batch_size>>

\* get_session and the checks of its result
LoginRequest ==
    /\ pc = "login"
    /\ \E reply \in Replies(LoginBodies(AttemptId)) :
          LET acct == accounts[Pos]
              hs1 == [hs EXCEPT !.login_reqs = @ + 1, !.login_reply = reply,
                                !.form = [email |-> acct[1], password |-> acct[2],
                                          token |-> ka.token, header |-> ka.token]]
              exc == http_json(reply)
              chk == session_check(reply.body)
          IN IF exc # "" THEN Finish(exc, hs1, obs, conns.open)
             ELSE IF chk.exc # "" THEN Finish(chk.exc, hs1, obs, conns.open)
             ELSE /\ ka' = [ka EXCEPT !.ws_host = chk.session.ws_host,
                                      !.ws_path = chk.session.ws_path,
                                      !.session_cookie = chk.session.session_cookie]
                  /\ hs' = [hs1 EXCEPT !.state = "LOGGED_IN"]
                  /\ pc' = "ws_connect"
                  /\ UNCHANGED <<i, k, aw, conns, obs, exit_status, escaped>>
    /\ UNCHANGED <<call, args, fs, accounts, sleep_seconds, batch_size, net_used>>

\* auth_websocket: ws_client, which opens the connection or raises
WsConnect ==
    /\ pc = "ws_connect"
    /\ \E ok \in BOOLEAN :
          LET hs1 == [hs EXCEPT !.ws_conns = @ + 1,
                                !.url = "wss://" \o ka.ws_host \o ka.ws_path]
          IN IF ~ok THEN Finish("TransportError", hs1, obs, conns.open)
             ELSE /\ conns' = [open |-> conns.open \cup {AttemptId}]
                  /\ aw' = [ws |-> AttemptId, pending |-> ""]
                  /\ hs' = [hs1 EXCEPT !.conn = AttemptId]
                  /\ pc' = "ws_send"
                  /\ UNCHANGED <<i, k, ka, obs, exit_status, escaped>>
    /\ UNCHANGED <<call, args, fs, accounts, sleep_seconds, batch_size, net_used>>

\* auth_websocket: ws.send of the auth frame
WsSend ==
    /\ pc = "ws_send"
    /\ \E ok \in BOOLEAN :
          /\ hs' = [hs EXCEPT !.sends = @ + 1, !.cookie_sent = ka.session_cookie]
          /\ IF ok THEN pc' = "ws_recv" /\ UNCHANGED aw
             ELSE pc' = "ws_finally" /\ aw' = [aw EXCEPT !.pending = "TransportError"]
    /\ UNCHANGED <<call, args, fs, accounts, sleep_seconds, batch_size, i, k, ka, conns, obs,
                   exit_status, escaped, net_used>>

\* auth_websocket: ws.recv, json.loads and r.get("success", False)
WsRecv ==
    /\ pc = "ws_recv"
    /\ \E reply \in Replies(Frames) :
          /\ hs' = [hs EXCEPT !.recvs = @ + 1, !.frame = reply]
          /\ aw' = [aw EXCEPT !.pending = frame_check(reply)]
          /\ pc' = IF frame_check(reply) \in {"return True", "return False"}
                   THEN "ws_close" ELSE "ws_finally"
    /\ UNCHANGED <<call, args, fs, accounts, sleep_seconds, batch_size, i, k, ka, conns, obs,
                   exit_status, escaped, net_used>>

\* auth_websocket: the ws.close() of the try block, before "return success"
WsClose ==
    /\ pc = "ws_close"
    /\ conns' = [open |-> ws_close(conns.open, aw.ws)]
    /\ hs' = [hs EXCEPT !.closes = @ + 1]
    /\ pc' = "ws_finally"
    /\ UNCHANGED <<call, args, fs, accounts, sleep_seconds, batch_size, i, k, ka, aw, obs,
                   exit_status, escaped, net_used>>

\* what keep_alive ends with, given what auth_websocket's try block ended with
ws_outcome(pending) ==
    CASE pending = "return True" -> ""
      [] pending = "return False" -> "RuntimeError: auth websocket request failed"
      [] OTHER -> pending

\* faulty variant: no finally block
WsFinally_NoClose ==
    /\ pc = "ws_finally"
    /\ Finish(ws_outcome(aw.pending), hs, obs, conns.open)
    /\ UNCHANGED <<call, args, fs, accounts, sleep_seconds, batch_size, net_used>>

\* auth_websocket: the ws.close() of the finally block; then the function
\* returns or raises, and keep_alive with it
WsFinally ==
    /\ pc = "ws_finally"
    /\ Finish(ws_outcome(aw.pending), [hs EXCEPT !.closes = @ + 1], obs,
              ws_close(conns.open, aw.ws))
    /\ UNCHANGED <<call, args, fs, accounts, sleep_seconds, batch_size, net_used>>

\* the steps inside keep_alive, that is inside the try of run_accounts_batched
KeepAliveSteps == {"token", "login", "ws_connect", "ws_send", "ws_recv", "ws_close",
                   "ws_finally"}

\* KeyboardInterrupt (SIGINT), at any point of the run.  Inside the try block
\* of auth_websocket the finally block still closes the connection.  Inside
\* keep_alive the exception passes the except clause of run_accounts_batched,
\* which would make a failed handshake of it if it caught it; nothing in main
\* catches it, "__main__" turns it into sys.exit(0)
Interrupt ==
    /\ pc # "exit"
    /\ LET inws == pc \in {"ws_send", "ws_recv", "ws_close"}
           open1 == IF inws THEN ws_close(conns.open, aw.ws) ELSE conns.open
           hs0 == IF pc = "token"
                  THEN [NoHandshake EXCEPT !.run = obs.runs, !.pos = Pos,
                                           !.email = accounts[Pos][1], !.token_reqs = 1]
                  ELSE hs
           hs1 == IF inws THEN [hs EXCEPT !.closes = @ + 1] ELSE hs0
           obs0 == [obs EXCEPT !.interrupted = TRUE]
           obs1 == IF pc = "token"
                   THEN [obs0 EXCEPT !.order = Append(@, Pos),
                                     !.batches = Attempted(@, Pos, k = 0)]
                   ELSE obs0
       IN IF pc \in KeepAliveSteps /\ ExceptException("KeyboardInterrupt")
          THEN Finish("KeyboardInterrupt", hs1, obs1, open1)
          ELSE /\ conns' = [open |-> open1]
               /\ hs' = IF inws THEN hs1 ELSE hs
               /\ obs' = obs0
               /\ Uncaught("KeyboardInterrupt")
               /\ UNCHANGED <<i, k, ka, aw>>
    /\ UNCHANGED <<call, args, fs, accounts, sleep_seconds, batch_size, net_used>>

Next ==
    \/ Main
    \/ RunAccountsBatched
    \/ TokenRequest
    \/ LoginRequest
    \/ WsConnect
    \/ WsSend
    \/ WsRecv
    \/ WsClose
    \/ WsFinally
    \/ BatchSleep
    \/ IterSleep
    \/ Interrupt

Spec == Init /\ [][Next]_vars

----------------------------------------------------------------------------
(* --forever mode followed without end.  The counters of obs number the    *)
(* scheduler invocations from 1; to follow the loop of main beyond MaxIter *)
(* invocations the oldest one is forgotten and the others are renumbered.  *)
(* No KeyboardInterrupt arrives, and every blocking call and every sleep   *)
(* returns: the process always takes its next step.                        *)

ForeverIntervals == {<<"1", "h">>, <<"2", "m">>, <<"x">>}
ForeverBatchSizes == 0..MaxForever
ForeverBatchSleeps == {0, 2}
\* a path that is no file, or a file of up to MaxForever lines "a:p"
ForeverSources ==
    {src \in Sources :
        /\ src.accounts_file # NoText
        /\ Len(src.lines) <= MaxForever
        /\ \A j \in 1..Len(src.lines) : src.lines[j] = <<"a", ":", "p">>}

ForeverInit ==
    /\ \E src \in ForeverSources, si \in ForeverIntervals,
          bs \in ForeverBatchSizes, bss \in ForeverBatchSleeps :
          /\ args = [accounts_file |-> src.accounts_file, email |-> src.email,
                     password |-> src.password, forever |-> TRUE, sleep_interval |-> si,
                     batch_size |-> bs, batch_sleep_seconds |-> bss]
          /\ fs = [isfile |-> src.isfile, lines |-> src.lines]
    /\ pc = "main"
    /\ accounts = <<>>
    /\ sleep_seconds = 0
    /\ batch_size = 0
    /\ i = 0
    /\ k = 0
    /\ ka = NoLocals
    /\ aw = [ws |-> 0, pending |-> ""]
    /\ conns = [open |-> {}]
    /\ hs = NoHandshake
    /\ obs = [order |-> <<>>, batches |-> <<>>, sleeps |-> <<>>, runs |-> 0,
              returns |-> 0, iter_sleeps |-> <<>>, interrupted |-> FALSE]
    /\ exit_status = -1
    /\ escaped = ""
    /\ net_used = FALSE
    /\ call = NoCall

\* time.sleep(sleep_seconds) of the forever loop after invocation MaxIter:
\* invocation 1 is forgotten, invocation n becomes n - 1
IterSleepOn ==
    /\ pc = "iter_sleep"
    /\ obs.runs = MaxIter
    /\ obs' = [obs EXCEPT !.runs = @ - 1, !.returns = @ - 1,
                          !.iter_sleeps = Tail(Append(@, sleep_seconds))]
    /\ hs' = [hs EXCEPT !.run = @ - 1,
                        !.conn = IF @ = 0 THEN 0 ELSE @ - Len(accounts)]
    /\ pc' = "run"
    /\ UNCHANGED <<call, args, fs, accounts, sleep_seconds, batch_size, i, k, ka, aw, conns,
                   exit_status, escaped, net_used>>

ForeverNext ==
    \/ Main
    \/ RunAccountsBatched
    \/ TokenRequest
    \/ LoginRequest
    \/ WsConnect
    \/ WsSend
    \/ WsRecv
    \/ WsClose
    \/ WsFinally
    \/ BatchSleep
    \/ IterSleep
    \/ IterSleepOn

ForeverSpec == ForeverInit /\ [][ForeverNext]_vars /\ WF_vars(ForeverNext)

----------------------------------------------------------------------------
(* Functions called on their own.  No process runs: the variables of the   *)
(* process keep the values below, and call holds the arguments and, once   *)
(* the function has returned, its result.                                  *)

NoProcess ==
    /\ args = [accounts_file |-> NoText, email |-> NoText, password |-> NoText,
               forever |-> FALSE, sleep_interval |-> NoText, batch_size |-> 0,
               batch_sleep_seconds |-> 0]
    /\ fs = [isfile |-> FALSE, lines |-> <<>>]
    /\ pc = "exit"
    /\ accounts = <<>>
    /\ sleep_seconds = 0
    /\ batch_size = 0
    /\ i = 0
    /\ k = 0
    /\ ka = NoLocals
    /\ aw = [ws |-> 0, pending |-> ""]
    /\ conns = [open |-> {}]
    /\ hs = NoHandshake
    /\ obs = [order |-> <<>>, batches |-> <<>>, sleeps |-> <<>>, runs |-> 0,
              returns |-> 0, iter_sleeps |-> <<>>, interrupted |-> FALSE]
    /\ exit_status = -1
    /\ escaped = ""
    /\ net_used = FALSE

procvars == <<args, fs, pc, accounts, sleep_seconds, batch_size, i, k, ka, aw, conns,
              hs, obs, exit_status, escaped, net_used>>

\* the function returns result
Return(result) ==
    /\ ~call.done
    /\ call' = [call EXCEPT !.result = result, !.done = TRUE]
    /\ UNCHANGED procvars

(* parse_duration_to_seconds on its own.  The string is written from a      *)
(* sequence of items: a token, that is an unsigned integer amount and a    *)
(* unit, or one character that belongs to no token.                        *)

Amounts == {0, 1, 12}
Junk == {"x", " "}
DurationItems ==
    {[token |-> TRUE, amount |-> a, unit |-> u, char |-> ""] : a \in Amounts, u \in Units}
    \cup {[token |-> FALSE, amount |-> 0, unit |-> "", char |-> c] : c \in Junk}

DigitChar(d) ==
    CASE d = 0 -> "0" [] d = 1 -> "1" [] d = 2 -> "2" [] d = 3 -> "3" [] d = 4 -> "4"
      [] d = 5 -> "5" [] d = 6 -> "6" [] d = 7 -> "7" [] d = 8 -> "8" [] d = 9 -> "9"

\* the decimal digits of n
RECURSIVE Decimal(_)
Decimal(n) == IF n < 10 THEN <<DigitChar(n)>> ELSE Append(Decimal(n \div 10), DigitChar(n % 10))

\* the string the items spell
RECURSIVE DurationText(_)
DurationText(items) ==
    IF items = <<>> THEN <<>>
    ELSE LET it == Head(items) IN
         (IF it.token THEN Append(Decimal(it.amount), it.unit) ELSE <<it.char>>)
         \o DurationText(Tail(items))

DurationInit ==
    /\ NoProcess
    /\ \E items \in SeqsUpTo(DurationItems, MaxTokens) :
          call = [fn |-> "parse_duration_to_seconds", arg |-> items, result |-> <<>>,
                  done |-> FALSE]

ParseDuration ==
    /\ call.fn = "parse_duration_to_seconds"
    /\ Return(parse_duration_to_seconds(DurationText(call.arg)))

DurationNext == ParseDuration

DurationSpec == DurationInit /\ [][DurationNext]_vars

(* load_accounts on its own, on an existing file whose lines are blank, a   *)
(* comment or hold a separator.                                            *)

FileLines ==
    {<<>>, <<" ", "\n">>,
     <<"#", "c">>, <<" ", "#", "a", ":", "p">>,
     <<"a", ":", "p">>, <<" ", "a", " ", ":", " ", "p", "\n">>,
     <<"b", ",", "q">>, <<"a", ",", "b", ":", "c">>, <<"a", ":", "b", ":", "c">>,
     <<":", "p">>}

AccountsInit ==
    /\ NoProcess
    /\ \E lines \in SeqsUpTo(FileLines, MaxFileLines) :
          call = [fn |-> "load_accounts", arg |-> lines, result |-> <<>>, done |-> FALSE]

LoadAccounts ==
    /\ call.fn = "load_accounts"
    /\ Return(load_accounts(<<"f">>, NoText, NoText, TRUE, call.arg))

AccountsNext == LoadAccounts

AccountsSpec == AccountsInit /\ [][AccountsNext]_vars

(* load_dotenv on its own.                                                 *)

EnvNames == {<<"A">>, <<"B">>}
Environments == UNION {[names -> {<<"1">>}] : names \in SUBSET EnvNames}

DotenvLines ==
    {<<>>, <<"#", "A", "=", "2">>, <<"A">>,
     <<"A", "=", "2">>, <<"A", "=", "3">>,
     <<" ", "B", " ", "=", " ", "2", "\n">>, <<"B", "=", "3", "=", "4">>,
     <<"=", "2">>}

DotenvInit ==
    /\ NoProcess
    /\ \E isfile \in BOOLEAN, env \in Environments :
       \E lines \in (IF isfile THEN SeqsUpTo(DotenvLines, MaxEnvLines) ELSE {<<>>}) :
          call = [fn |-> "load_dotenv",
                  arg |-> [isfile |-> isfile, lines |-> lines, env |-> env],
                  result |-> <<>>, done |-> FALSE]

LoadDotenv ==
    /\ call.fn = "load_dotenv"
    /\ Return(load_dotenv(call.arg.isfile, call.arg.lines, call.arg.env))

DotenvNext == LoadDotenv

DotenvSpec == DotenvInit /\ [][DotenvNext]_vars

----------------------------------------------------------------------------
(* Properties.                                                             *)

\* <<1, ..., n>>
UpTo(n) == [p \in 1..n |-> p]

RECURSIVE Flatten(_)
Flatten(ss) == IF ss = <<>> THEN <<>> ELSE Head(ss) \o Flatten(Tail(ss))

\* the scheduler invocation begun last has returned to main
SchedulerReturned == obs.runs > 0 /\ obs.returns = obs.runs

Terminal == {"WS_AUTHENTICATED", "FAILED"}

\* C1: failure isolation.  Whatever handshakes fail, and however (protocol
\* failure or transport error), no exception leaves run_accounts_batched: the
\* process never ends on one, a failed handshake is followed by the rest of the
\* list, and when the scheduler has returned keep_alive was called for every
\* account of the list.
C1_FailureIsolation ==
    /\ escaped \in {"", "SystemExit", "KeyboardInterrupt"}
    /\ (escaped = "SystemExit") => ~net_used
    /\ (escaped = "KeyboardInterrupt") => obs.interrupted
    /\ (hs.state = "FAILED" /\ pc = "exit" /\ ~obs.interrupted) =>
          (exit_status = 0 /\ SchedulerReturned)
    /\ (SchedulerReturned /\ ~obs.interrupted) => obs.order = UpTo(Len(accounts))

\* account 2 of 3 failed on a transport error, batch 2 of 3 with it, and the
\* scheduler went on to account 3 in batch 3
C1_Witness ==
    /\ Len(accounts) = 3 /\ batch_size = 1
    /\ hs.pos = 2 /\ hs.state = "FAILED" /\ hs.error = "TransportError"
    /\ pc = "token" /\ Pos = 3

\* C2: for batch_size >= 1 the batches of one invocation are contiguous slices
\* in list order: none is empty, none has more than batch_size accounts, all
\* but the last have exactly batch_size, and together they are the account
\* list, each position once and in order; every handshake is for the account
\* at its position.
C2_ContiguousBatches ==
    (args.batch_size >= 1 /\ obs.runs > 0) =>
       LET B == obs.batches IN
       /\ \A b \in 1..Len(B) : Len(B[b]) >= 1 /\ Len(B[b]) <= args.batch_size
       /\ \A b \in 1..(Len(B) - 1) : Len(B[b]) = args.batch_size
       /\ Flatten(B) = obs.order
       /\ obs.order = UpTo(Len(obs.order))
       /\ Len(obs.order) <= Len(accounts)
       /\ (hs.pos # 0) => hs.email = accounts[hs.pos][1]
       /\ (SchedulerReturned /\ ~obs.interrupted) => obs.order = UpTo(Len(accounts))

\* three accounts, the first two the same, batch_size 2: batches of 2 and 1
C2_Witness ==
    /\ SchedulerReturned /\ ~obs.interrupted
    /\ Len(accounts) = 3 /\ accounts[1] = accounts[2]
    /\ args.batch_size = 2
    /\ obs.batches = <<<<1, 2>>, <<3>>>>

\* C3: for batch_size <= 0 there is one batch, of all accounts in list order,
\* and no batch sleep, whatever batch_sleep_seconds is.
C3_NonPositiveBatchSize ==
    (args.batch_size <= 0) =>
       /\ pc # "batch_sleep"
       /\ obs.sleeps = <<>>
       /\ Len(obs.batches) <= 1
       /\ (SchedulerReturned /\ ~obs.interrupted) =>
             obs.batches = <<UpTo(Len(accounts))>>

C3_Witness ==
    /\ SchedulerReturned /\ ~obs.interrupted
    /\ args.batch_size = 0 /\ args.batch_sleep_seconds = 2
    /\ Len(accounts) = 3
    /\ obs.batches = <<<<1, 2, 3>>>>

\* the number of accounts in the first b batches
Through(B, b) == Len(Flatten(SubSeq(B, 1, b)))

\* C4: pacing between batches.  With batch_sleep_seconds > 0 there is one sleep
\* of batch_sleep_seconds after every batch but the last, taken when the last
\* account of the batch has reached a terminal state and before the next batch
\* starts, so k batches make k - 1 sleeps; with batch_sleep_seconds <= 0 there
\* is none.  Handshake outcomes play no part.
C4_BatchPacing ==
    (obs.runs > 0 /\ ~obs.interrupted) =>
       LET B == obs.batches
           nb == Len(B)
           between == pc = "token" /\ k = 0
       IN
       /\ (args.batch_sleep_seconds <= 0) => (obs.sleeps = <<>> /\ pc # "batch_sleep")
       /\ (args.batch_sleep_seconds > 0) =>
             /\ Len(obs.sleeps) = IF between THEN nb ELSE nb - 1
             /\ \A j \in 1..Len(obs.sleeps) :
                   obs.sleeps[j] = [after |-> Through(B, j),
                                    seconds |-> args.batch_sleep_seconds]
       /\ (pc = "batch_sleep") =>
             /\ hs.state \in Terminal
             /\ hs.pos = Through(B, nb)
             /\ Len(obs.order) < Len(accounts)
       /\ SchedulerReturned =>
             Len(obs.sleeps) = IF args.batch_sleep_seconds > 0 THEN nb - 1 ELSE 0

\* three batches of one account, two sleeps, after a failed and a successful
\* handshake
C4_Witness ==
    /\ SchedulerReturned /\ ~obs.interrupted
    /\ Len(obs.batches) = 3
    /\ obs.sleeps = <<[after |-> 1, seconds |-> 2], [after |-> 2, seconds |-> 2]>>
    /\ hs.state = "FAILED"

\* What a reply says, read off the reply itself.
IsObject(reply) == reply.kind = "body" /\ reply.body.valid /\ reply.body.isdict
Has(reply, key) == IsObject(reply) /\ key \in DOMAIN reply.body.obj
SuccessTrue(reply) == Has(reply, "success") /\ reply.body.obj["success"] = TRUE
SuccessFalse(reply) == IsObject(reply) /\ ~SuccessTrue(reply)
TokenPresent(reply) == Has(reply, "token") /\ reply.body.obj["token"] # ""

\* The failure kinds of the handshake, by the exception keep_alive ends with.
FailureKind(exc) ==
    CASE exc = "" -> "None"
      [] exc = "RuntimeError: get auth token failed" -> "TokenRequestFailed"
      [] exc = "RuntimeError: auth token missing in response" -> "TokenMissing"
      [] exc = "RuntimeError: get session failed, check email and password" -> "LoginFailed"
      [] exc = "KeyError" -> "MalformedSessionResponse"
      [] exc = "RuntimeError: auth websocket request failed" -> "WebSocketAuthFailed"
      [] OTHER -> "TransportError"

WsSteps == {"ws_send", "ws_recv", "ws_close", "ws_finally"}

\* C5: step ordering of one handshake.  A login request is only issued after a
\* token response with success true and a non-empty token, a WebSocket
\* connection only after a login response with success true.  A token response
\* with success false ends the handshake as TokenRequestFailed, one with
\* success true and no (or an empty) token as TokenMissing, a login response
\* with success false as LoginFailed, each without any later step.
C5_StepOrdering ==
    /\ (hs.login_reqs > 0) =>
          (SuccessTrue(hs.token_reply) /\ TokenPresent(hs.token_reply))
    /\ (hs.ws_conns > 0) => (hs.login_reqs > 0 /\ SuccessTrue(hs.login_reply))
    /\ (hs.token_reqs > 0 /\ SuccessFalse(hs.token_reply)) =>
          /\ hs.state = "FAILED" /\ FailureKind(hs.error) = "TokenRequestFailed"
          /\ hs.login_reqs = 0 /\ hs.ws_conns = 0
    /\ (SuccessTrue(hs.token_reply) /\ ~TokenPresent(hs.token_reply)) =>
          /\ hs.state = "FAILED" /\ FailureKind(hs.error) = "TokenMissing"
          /\ hs.login_reqs = 0 /\ hs.ws_conns = 0
    /\ (hs.login_reqs > 0 /\ SuccessFalse(hs.login_reply)) =>
          /\ hs.state = "FAILED" /\ FailureKind(hs.error) = "LoginFailed"
          /\ hs.ws_conns = 0

\* the token response said success false and yet carried a token
C5_Witness ==
    /\ SuccessFalse(hs.token_reply) /\ TokenPresent(hs.token_reply)
    /\ hs.state = "FAILED" /\ hs.login_reqs = 0

\* C6: a login response with success true that lacks websocket_host,
\* websocket_path or session ends the handshake with a failure of its own kind
\* (the KeyError of the subscript: neither the RuntimeError of a refused login
\* nor an exception of the transport), and no WebSocket connection is opened.
C6_MalformedSession ==
    LET lacking == /\ hs.login_reqs > 0
                   /\ SuccessTrue(hs.login_reply)
                   /\ ~(SessionFields \subseteq DOMAIN hs.login_reply.body.obj)
    IN /\ lacking =>
             /\ hs.state = "FAILED"
             /\ FailureKind(hs.error) = "MalformedSessionResponse"
             /\ hs.ws_conns = 0 /\ hs.conn = 0 /\ conns.open = {}
       /\ (FailureKind(hs.error) = "MalformedSessionResponse") => lacking

\* success true with path and session, but no websocket_host
C6_Witness ==
    /\ hs.login_reqs = 1 /\ SuccessTrue(hs.login_reply)
    /\ DOMAIN hs.login_reply.body.obj = {"success", "websocket_path", "session"}
    /\ hs.state = "FAILED"

\* C7: a connection auth_websocket opened is closed when auth_websocket has
\* returned or raised, on every path, so none is open when the next handshake,
\* a batch sleep or an iteration sleep begins.
C7_ConnectionsClosed ==
    ~obs.interrupted =>
       /\ conns.open \subseteq (IF pc \in WsSteps THEN {aw.ws} ELSE {})
       /\ (pc \notin WsSteps /\ hs.conn # 0) => hs.closes >= 1
       /\ (pc \in {"token", "batch_sleep", "iter_sleep"}) => conns.open = {}

\* the frame did not decode as JSON
C7_Witness ==
    /\ ~obs.interrupted
    /\ hs.conn # 0 /\ hs.frame = BodyReply(NotJson)
    /\ hs.state = "FAILED" /\ hs.error = "JSONDecodeError"
    /\ conns.open = {}

\* C8: when the response frame is {"success": true} the handshake ends in
\* success and close was invoked on the connection exactly once.
C8_ClosedExactlyOnce ==
    (hs.state \in Terminal /\ SuccessTrue(hs.frame) /\ ~obs.interrupted) =>
       (hs.state = "WS_AUTHENTICATED" /\ hs.closes = 1)

\* C9: no retries, no reuse.  A handshake makes at most one token request, one
\* login request and one WebSocket connection with one send and one receive;
\* it does not go on after it failed; no position is attempted twice in one
\* scheduler invocation; a connection serves the handshake that opened it.
C9_NoRetries ==
    /\ hs.token_reqs <= 1 /\ hs.login_reqs <= 1 /\ hs.ws_conns <= 1
    /\ hs.sends <= 1 /\ hs.recvs <= 1
    /\ (hs.state = "FAILED") => pc \in {"token", "batch_sleep", "iter_sleep", "run", "exit"}
    /\ \A a, b \in 1..Len(obs.order) : a # b => obs.order[a] # obs.order[b]
    /\ (hs.conn # 0) => hs.conn = (hs.run - 1) * Len(accounts) + hs.pos
    /\ (aw.ws # 0) => (aw.ws = hs.conn /\ (pc \in WsSteps \/ obs.interrupted))

\* account 1 failed at login; the scheduler is at account 2
C9_Witness ==
    /\ hs.pos = 1 /\ hs.state = "FAILED" /\ hs.login_reqs = 1 /\ hs.ws_conns = 0
    /\ pc = "token" /\ Pos = 2 /\ obs.order = <<1>>

\* C10: one-shot mode.  Once the accounts are loaded the scheduler is invoked
\* once, there is no iteration sleep, and the process ends with exit status 0
\* whatever the handshakes' outcomes.
C10_OneShot ==
    (~args.forever) =>
       /\ obs.runs <= 1 /\ obs.iter_sleeps = <<>> /\ pc # "iter_sleep"
       /\ (pc = "exit" /\ accounts # <<>>) =>
             /\ exit_status = 0
             /\ ~obs.interrupted =>
                   (obs.runs = 1 /\ obs.returns = 1 /\ obs.order = UpTo(Len(accounts)))

\* the only account failed, exit status 0
C10_Witness ==
    /\ ~args.forever /\ ~obs.interrupted
    /\ pc = "exit" /\ exit_status = 0
    /\ Len(accounts) = 1 /\ hs.pos = 1 /\ hs.state = "FAILED"

\* the configuration main resolves is complete: accounts and a sleep interval
Configured ==
    /\ load_accounts(args.accounts_file, args.email, args.password,
                     fs.isfile, fs.lines).exit = ""
    /\ parse_duration_to_seconds(args.sleep_interval).ok

\* the alternation of forever mode, state by state
ForeverAlternates ==
    /\ (pc = "exit") => (~Configured /\ obs.runs = 0 /\ exit_status = 1)
    /\ (obs.runs > 0) =>
          /\ Configured
          /\ sleep_seconds = parse_duration_to_seconds(args.sleep_interval).seconds
          /\ \A j \in 1..Len(obs.iter_sleeps) : obs.iter_sleeps[j] = sleep_seconds
          /\ Len(obs.iter_sleeps) = IF pc = "run" THEN obs.runs ELSE obs.runs - 1
          /\ obs.returns = IF pc \in {"run", "iter_sleep"} THEN obs.runs ELSE obs.runs - 1
          /\ (pc \in {"run", "iter_sleep"}) => obs.order = UpTo(Len(accounts))

\* C11: forever mode.  The sleep interval is parsed once, before the first
\* iteration; the process then alternates between one whole scheduler
\* invocation and one sleep of the parsed duration and never ends on its own.
\* When every network call and every sleep returns, the scheduler is invoked
\* again and again and each invocation attempts every account, whatever
\* handshakes failed before.
C11_Forever ==
    /\ []ForeverAlternates
    /\ [](Configured => <>(pc = "run"))
    /\ [](pc = "run" => <>(pc = "iter_sleep" /\ hs.run = obs.runs /\ hs.pos = Len(accounts)))

\* the only account failed in the first iteration; after the sleep of two
\* minutes the second iteration attempts it again
C11_Witness ==
    /\ args.forever /\ Len(accounts) = 1
    /\ obs.runs = 2 /\ obs.returns = 1 /\ obs.iter_sleeps = <<120>>
    /\ hs.run = 1 /\ hs.state = "FAILED"
    /\ pc = "token"

\* C12: a KeyboardInterrupt, wherever it arrives (token or login request,
\* WebSocket exchange or close, batch sleep, iteration sleep), is not made a
\* failed handshake of: the process ends with exit status 0 and takes no
\* further step, so there is no further handshake.
C12_Interrupt ==
    obs.interrupted =>
       /\ pc = "exit" /\ exit_status = 0 /\ escaped = "KeyboardInterrupt"
       /\ ~ENABLED Next

\* interrupted while the first of three accounts waited for the frame
C12_Witness ==
    /\ obs.interrupted /\ exit_status = 0
    /\ hs.pos = 1 /\ hs.sends = 1 /\ hs.recvs = 0
    /\ obs.order = <<1>> /\ Len(accounts) = 3

\* A line of the accounts file that is neither blank nor a comment
HasContent(line) == strip(line) # <<>> /\ Head(strip(line)) # "#"

\* The account configuration is in error, read off the arguments and the file:
\* the path names no file, a line with content has no separator, or there is
\* no account at all
AccountConfigError ==
    LET given == args.accounts_file # NoText
        lines == fs.lines
    IN \/ given /\ ~fs.isfile
       \/ /\ given /\ fs.isfile
          /\ \E j \in 1..Len(lines) :
                HasContent(lines[j]) /\ ~Contains(lines[j], ":") /\ ~Contains(lines[j], ",")
       \/ given /\ fs.isfile /\ \A j \in 1..Len(lines) : ~HasContent(lines[j])
       \/ ~given /\ (args.email = NoText \/ args.password = NoText)

\* C13: with an account-configuration error (no accounts, a path that is no
\* file, a line with neither ':' nor ',') the process ends with a non-zero exit
\* status before any network request; an invalid line aborts the loading even
\* after valid lines, so no account of the file is attempted.
C13_AccountConfigError ==
    AccountConfigError =>
       /\ ~net_used /\ obs.runs = 0 /\ obs.order = <<>> /\ accounts = <<>>
       /\ hs = NoHandshake
       /\ pc \in {"main", "exit"}
       /\ (pc = "exit" /\ ~obs.interrupted) => (exit_status = 1 /\ escaped = "SystemExit")

\* two valid lines, then a line without separator
C13_Witness ==
    /\ fs.isfile /\ fs.lines = <<<<"a", ":", "p">>, <<"b", ",", "q">>, <<"x">>>>
    /\ pc = "exit" /\ exit_status = 1 /\ ~net_used

\* C14: whenever the sleep-interval string is unparseable, in one-shot mode as
\* in forever mode, the process ends with a non-zero exit status and there is
\* no network activity.
C14_UnparseableInterval ==
    (~parse_duration_to_seconds(args.sleep_interval).ok /\ ~obs.interrupted) =>
       /\ ~net_used
       /\ (pc = "exit") => exit_status > 0

\* the sum of amount * UnitSeconds(unit) over the tokens among the items
RECURSIVE TokenSum(_)
TokenSum(items) ==
    IF items = <<>> THEN 0
    ELSE (IF Head(items).token THEN Head(items).amount * UnitSeconds(Head(items).unit) ELSE 0)
         + TokenSum(Tail(items))

\* C15: parse_duration_to_seconds, on a string of tokens with unsigned integer
\* amounts and units s, m, h, d, fails exactly when the string holds no token,
\* and else returns the sum of amount * unitSeconds over the tokens, whatever
\* their order and whatever characters stand between them.
C15_ParseDuration ==
    (call.fn = "parse_duration_to_seconds" /\ call.done) =>
       LET items == call.arg
           notoken == \A j \in 1..Len(items) : ~items[j].token
       IN IF notoken THEN ~call.result.ok
          ELSE call.result.ok /\ call.result.seconds = TokenSum(items)

\* the pair of a line: the line split at its first ':' when it holds one, else
\* at its first ',', both parts trimmed
PairOf(line) ==
    LET sep == IF Contains(line, ":") THEN ":" ELSE ","
        p == FirstIndex(line, sep)
    IN <<strip(SubSeq(line, 1, p - 1)), strip(SubSeq(line, p + 1, Len(line)))>>

\* the pairs of the lines with content, in file order
RECURSIVE PairsOf(_)
PairsOf(lines) ==
    IF lines = <<>> THEN <<>>
    ELSE IF HasContent(Head(lines)) THEN <<PairOf(Head(lines))>> \o PairsOf(Tail(lines))
    ELSE PairsOf(Tail(lines))

\* C16 as stated: load_accounts on an existing file whose lines are blank, a
\* comment or hold a separator returns exactly the pairs of the lines that are
\* neither blank nor a comment, in file order; a pair is the line split at its
\* first ':' when it holds one, else at its first ',', both parts trimmed.
C16_LoadAccountsAsStated ==
    (call.fn = "load_accounts" /\ call.done) =>
       (call.result.exit = "" /\ call.result.accounts = PairsOf(call.arg))

\* C16, amended: the same when at least one line is neither blank nor a
\* comment; when there is none, load_accounts does not return the empty
\* sequence but ends the process ("No accounts configured").
C16_LoadAccounts ==
    (call.fn = "load_accounts" /\ call.done) =>
       IF PairsOf(call.arg) = <<>>
       THEN call.result.exit = "No accounts configured"
       ELSE call.result.exit = "" /\ call.result.accounts = PairsOf(call.arg)

\* " a : p", a comment, then "a,b:c", which is split at its ':'
C16_Witness ==
    /\ call.fn = "load_accounts" /\ call.done
    /\ call.arg = << <<" ", "a", " ", ":", " ", "p", "\n">>, <<"#", "c">>,
                     <<"a", ",", "b", ":", "c">> >>
    /\ call.result.accounts = << <<<<"a">>, <<"p">>>>, <<<<"a", ",", "b">>, <<"c">>>> >>

\* line sets the variable name: it has content and a '=', and the text before
\* its first '=' is name, trimmed
Assigns(line, name) ==
    /\ HasContent(line) /\ Contains(line, "=")
    /\ strip(SubSeq(line, 1, FirstIndex(line, "=") - 1)) = name

\* the value of a line that sets a variable: the text after its first '='
ValueOf(line) == strip(SubSeq(line, FirstIndex(line, "=") + 1, Len(line)))

\* C17: load_dotenv leaves every variable that was set before the call with
\* the value it had; it only adds variables that were not set, each with the
\* value of the first line of the file that sets it.
C17_DotenvFrame ==
    (call.fn = "load_dotenv" /\ call.done) =>
       LET before == call.arg.env
           after == call.result.env
           lines == call.arg.lines
       IN /\ \A name \in DOMAIN before :
                name \in DOMAIN after /\ after[name] = before[name]
          /\ \A name \in DOMAIN after \ DOMAIN before :
                /\ call.arg.isfile
                /\ \E j \in 1..Len(lines) :
                      /\ Assigns(lines[j], name)
                      /\ \A h \in 1..(j - 1) : ~Assigns(lines[h], name)
                      /\ after[name] = ValueOf(lines[j])

\* A was set to 1; the file sets A to 2, then B to 2, then B to 3
C17_Witness ==
    /\ call.fn = "load_dotenv" /\ call.done
    /\ call.arg.env = [name \in {<<"A">>} |-> <<"1">>]
    /\ call.arg.lines = << <<"A", "=", "2">>, <<" ", "B", " ", "=", " ", "2", "\n">>,
                           <<"B", "=", "3", "=", "4">> >>
    /\ call.result.env = [name \in EnvNames |-> IF name = <<"A">> THEN <<"1">> ELSE <<"2">>]

\* the number, over the whole run, of the handshake attempt hs records
HsAttempt == (hs.run - 1) * Len(accounts) + hs.pos

\* C18: token freshness.  The token of a login request, in the form and in the
\* X-Auth-FormToken header, is the one the token request of the same attempt
\* returned, and the request is for the account of that attempt; a handshake
\* makes one login at most and keeps nothing when it has ended, so no token
\* serves a second login, another account or a later iteration.  The cookie
\* of the auth frame is the one the login of the same attempt returned.
C18_TokenFreshness ==
    /\ (hs.login_reqs > 0) =>
          /\ TokenPresent(hs.token_reply)
          /\ hs.form.token = hs.token_reply.body.obj["token"]
          /\ hs.form.header = hs.form.token
          /\ hs.form.token = TokenOf(HsAttempt)
          /\ hs.form.email = accounts[hs.pos][1]
          /\ hs.form.password = accounts[hs.pos][2]
          /\ hs.login_reqs = 1
    /\ (hs.sends > 0) =>
          /\ Has(hs.login_reply, "session")
          /\ hs.cookie_sent = hs.login_reply.body.obj["session"]
          /\ hs.cookie_sent = CookieOf(HsAttempt)
          /\ hs.sends = 1
    /\ (pc \in {"run", "token", "batch_sleep", "iter_sleep"} \/ (pc = "exit" /\ ~obs.interrupted))
          => ka = NoLocals

\* the second handshake of the second iteration over three accounts sent the
\* token and the cookie of its own requests, not those of the handshake before
C18_Witness ==
    /\ Len(accounts) = 3 /\ hs.run = 2 /\ hs.pos = 2
    /\ hs.form.token = "tokA" /\ hs.form.header = "tokA"
    /\ hs.cookie_sent = "cookA" /\ hs.sends = 1

\* the three replies of the handshake hs records are all good
AllGood ==
    /\ SuccessTrue(hs.token_reply) /\ TokenPresent(hs.token_reply)
    /\ SuccessTrue(hs.login_reply)
    /\ SessionFields \subseteq DOMAIN hs.login_reply.body.obj
    /\ hs.recvs = 1 /\ SuccessTrue(hs.frame)

Plan(n, bs) ==
    LET ebs == IF bs <= 0 THEN n ELSE bs
        nb == (n + ebs - 1) \div ebs
        last(b) == IF b * ebs <= n THEN b * ebs ELSE n
    IN [b \in 1..nb |-> [j \in 1..(last(b) - (b - 1) * ebs) |-> (b - 1) * ebs + j]]

IsPrefix(s, t) == Len(s) <= Len(t) /\ s = SubSeq(t, 1, Len(s))

\* C20: the scheduler keeps no memory.  In every invocation, the first and
\* the later ones alike and whatever handshakes failed before, the positions
\* attempted so far are the beginning of the one plan the account count and
\* the batch size determine, with the plan's batch boundaries, each position
\* once; an invocation that has returned attempted the whole plan.  So an
\* account that failed is attempted again, once, in the next iteration.
C20_NoMemory ==
    (obs.runs > 0) =>
       LET P == Plan(Len(accounts), args.batch_size)
           B == obs.batches
       IN /\ Len(B) <= Len(P)
          /\ \A b \in 1..Len(B) :
                IsPrefix(B[b], P[b]) /\ (b < Len(B) => B[b] = P[b])
          /\ Flatten(B) = obs.order
          /\ \A a, b \in 1..Len(obs.order) : a # b => obs.order[a] # obs.order[b]
          /\ SchedulerReturned => B = P
          /\ (pc \in KeepAliveSteps) => (obs.order # <<>> \/ pc = "token")
          /\ (pc \in KeepAliveSteps \ {"token"}) =>
                (hs.run = obs.runs /\ hs.pos = obs.order[Len(obs.order)])

\* the last of two accounts failed in the first iteration; the second
\* iteration starts over at position 1, with nothing attempted yet
C20_Witness ==
    /\ args.forever /\ Len(accounts) = 2 /\ args.batch_size = 1
    /\ hs.run = 1 /\ hs.pos = 2 /\ hs.state = "FAILED"
    /\ obs.runs = 2 /\ obs.order = <<>> /\ pc = "token" /\ Pos = 1

====
